---- MODULE Spec2Model ----
(***************************************************************************)
(* rcli: the static-content HTTP server (src/process/http_serve.rs) and    *)
(* the validation of its command-line arguments (src/cli/mod.rs).          *)
(*                                                                         *)
(* Text is modelled as sequences of bytes (0..255), the way Rust's Path    *)
(* sees it on Unix.  A filesystem path is a sequence of components, each   *)
(* component a byte sequence.                                              *)
(***************************************************************************)
EXTENDS Integers, Sequences, FiniteSets, TLC

\* ------------------------------------------------------------------ bounds

\* Most tokens concatenated into one raw path handed to the Path Resolver alone.
MaxTok == 3

\* Most tokens concatenated, after the leading `/`, into the path of one request.
MaxReqTok == 2

\* The sizes formatted are around the powers of two up to 2^MaxSizeExp.
MaxSizeExp == 22

\* Most characters of a string given as the port.
MaxPortLen == 5

\* Requests handled at the same time.
MaxTasks == 2

\* Most bytes of a message that is encrypted.
MaxMsgLen == 2

\* Most bytes of an input handed to decryption as it is.
MaxInputLen == 13

\* The random number generator is one of the generators 0..MaxSeed.
MaxSeed == 1

\* ------------------------------------------------------------------- state

VARIABLES
    rv_pc,      \* the resolver harness: "call" before the call, "ret" after it
    rv_root,    \* its root directory
    rv_path,    \* its raw request path
    rv_result,  \* what build_and_validate_path returned
    fn_call,    \* a call of one of the pure functions: its name and arguments
    fn_ret,     \* what the call returned
    server,     \* process_http_serve: "init", "listening" or "exited"
    root,       \* HttpServeState.path
    fs,         \* the served tree
    h,          \* the request being handled by file_service
    hs,         \* the requests handled concurrently, one per task
    failed      \* history: a request has ended in 400 or 500 before

vars == <<rv_pc, rv_root, rv_path, rv_result, fn_call, fn_ret,
          server, root, fs, h, hs, failed>>
rv_vars == <<rv_pc, rv_root, rv_path, rv_result>>
fn_vars == <<fn_call, fn_ret>>
srv_vars == <<server, root, fs, h, failed>>

\* -------------------------------------------------------------------- text

\* The ASCII code of a one-character string.
Byte(c) ==
    CASE c = "/" -> 47
      [] c = "." -> 46
      [] c = "%" -> 37
      [] c = "2" -> 50
      [] c = "5" -> 53
      [] c = "a" -> 97
      [] c = "e" -> 101
      [] c = "f" -> 102
      [] c = "h" -> 104
      [] c = "i" -> 105
      [] c = "p" -> 112
      [] c = "r" -> 114
      [] c = "s" -> 115
      [] c = "u" -> 117
      [] c = "v" -> 118
      [] c = "b" -> 98
      [] c = "0" -> 48
      [] c = "3" -> 51
      [] c = "6" -> 54
      [] c = "+" -> 43
      [] c = "-" -> 45

\* The bytes of a text written as a sequence of one-character strings.
B(cs) == [i \in 1..Len(cs) |-> Byte(cs[i])]

Slash == Byte("/")
Dot == Byte(".")
Percent == Byte("%")
DotDot == <<Dot, Dot>>

\* A text: a sequence of bytes.  The recursive helpers below are functions of
\* texts, so that each is applied to a value.
Text == Seq(0..255)

\* s without its first n bytes.
Drop(s, n) == SubSeq(s, n + 1, Len(s))

\* str::trim_start_matches(c): every leading c is removed; first a variant that
\* removes one.
trim_start_matches_once(s, c) == IF s # <<>> /\ s[1] = c THEN Drop(s, 1) ELSE s

trim_start_matches(s, c) ==
    LET lead == { k \in 0..Len(s) : \A i \in 1..k : s[i] = c }
        n == CHOOSE k \in lead : \A j \in lead : j <= k
    IN  Drop(s, n)

\* str::ends_with(c)
ends_with(s, c) == s # <<>> /\ s[Len(s)] = c

\* The value of a hexadecimal digit, -1 for any other byte.
HexVal(b) ==
    IF b >= 48 /\ b <= 57 THEN b - 48
    ELSE IF b >= 97 /\ b <= 102 THEN b - 87
    ELSE IF b >= 65 /\ b <= 70 THEN b - 55
    ELSE -1

\* percent_encoding::percent_decode: %XY with two hex digits becomes one byte;
\* a % not followed by two hex digits is passed through unchanged.
percent_decode[s \in Text] ==
    IF s = <<>> THEN <<>>
    ELSE IF s[1] = Percent /\ Len(s) >= 3 /\ HexVal(s[2]) >= 0 /\ HexVal(s[3]) >= 0
         THEN <<16 * HexVal(s[2]) + HexVal(s[3])>> \o percent_decode[Drop(s, 3)]
         ELSE <<s[1]>> \o percent_decode[Tail(s)]

\* A UTF-8 continuation byte within [lo, hi].
Cont(s, i, lo, hi) == Len(s) >= i /\ s[i] >= lo /\ s[i] <= hi

\* The length of the well-formed UTF-8 sequence s starts with, 0 when there is none.
Utf8Lead(s) ==
    LET b == s[1] IN
    IF b <= 127 THEN 1
    ELSE IF b >= 194 /\ b <= 223 /\ Cont(s, 2, 128, 191) THEN 2
    ELSE IF b = 224 /\ Cont(s, 2, 160, 191) /\ Cont(s, 3, 128, 191) THEN 3
    ELSE IF b >= 225 /\ b <= 236 /\ Cont(s, 2, 128, 191) /\ Cont(s, 3, 128, 191) THEN 3
    ELSE IF b = 237 /\ Cont(s, 2, 128, 159) /\ Cont(s, 3, 128, 191) THEN 3
    ELSE IF b >= 238 /\ b <= 239 /\ Cont(s, 2, 128, 191) /\ Cont(s, 3, 128, 191) THEN 3
    ELSE IF b = 240 /\ Cont(s, 2, 144, 191) /\ Cont(s, 3, 128, 191)
                    /\ Cont(s, 4, 128, 191) THEN 4
    ELSE IF b >= 241 /\ b <= 243 /\ Cont(s, 2, 128, 191) /\ Cont(s, 3, 128, 191)
                    /\ Cont(s, 4, 128, 191) THEN 4
    ELSE IF b = 244 /\ Cont(s, 2, 128, 143) /\ Cont(s, 3, 128, 191)
                    /\ Cont(s, 4, 128, 191) THEN 4
    ELSE 0

\* PercentDecode::decode_utf8(): whether the decoded bytes are valid UTF-8.
decode_utf8_ok[s \in Text] ==
    IF s = <<>> THEN TRUE
    ELSE Utf8Lead(s) > 0 /\ decode_utf8_ok[Drop(s, Utf8Lead(s))]

\* ------------------------------------------------------------------- paths

\* The segments between the separators of p, empty ones included; cur is the
\* segment being read.
SplitSlash[p \in Text, cur \in Text] ==
    IF p = <<>> THEN <<cur>>
    ELSE IF Head(p) = Slash THEN <<cur>> \o SplitSlash[Tail(p), <<>>]
    ELSE SplitSlash[Tail(p), Append(cur, Head(p))]

RootDir == [kind |-> "RootDir", s |-> <<>>]
CurDir == [kind |-> "CurDir", s |-> <<>>]
ParentDir == [kind |-> "ParentDir", s |-> <<>>]
Normal(s) == [kind |-> "Normal", s |-> s]

\* std::path::Component
Component == [kind : {"RootDir", "CurDir", "ParentDir", "Normal"}, s : Text]

\* One segment of a path's body: empty and `.` segments yield nothing; first a
\* variant that takes `.` for a name.
ParseSegment_keeps_dot(seg) ==
    IF seg = <<>> THEN <<>>
    ELSE IF seg = DotDot THEN <<ParentDir>>
    ELSE <<Normal(seg)>>

ParseSegment(seg) ==
    IF seg = <<>> \/ seg = <<Dot>> THEN <<>>
    ELSE IF seg = DotDot THEN <<ParentDir>>
    ELSE <<Normal(seg)>>

ParseBody[segs \in Seq(Text)] ==
    IF segs = <<>> THEN <<>> ELSE ParseSegment(Head(segs)) \o ParseBody[Tail(segs)]

\* std::path::Path::components() on Unix: RootDir for a leading separator, CurDir
\* for a leading `.` only, then the body (there is no Prefix on Unix).
Components[p \in Text] ==
    LET has_root == p # <<>> /\ p[1] = Slash
        cur_dir == ~has_root /\ p # <<>> /\ p[1] = Dot /\ (Len(p) = 1 \/ p[2] = Slash)
        front == IF has_root THEN <<RootDir>> ELSE IF cur_dir THEN <<CurDir>> ELSE <<>>
    IN  front \o ParseBody[SplitSlash[p, <<>>]]

None == [some |-> FALSE, path |-> <<>>]
Some(p) == [some |-> TRUE, path |-> p]

\* PathBuf::push of a relative one-component path.
Push(acc, comp) == Append(acc, comp)

\* `Path::new(comp).components().all(|c| matches!(c, Component::Normal(_)))`
AllNormal(comp) ==
    \A i \in 1..Len(Components[comp]) : Components[comp][i].kind = "Normal"

\* The match of the loop on one component: "push", "skip" or "reject".
ComponentArm(c) ==
    IF c.kind = "Normal" THEN (IF AllNormal(c.s) THEN "push" ELSE "reject")
    ELSE IF c.kind = "CurDir" THEN "skip"
    ELSE "reject"

\* Variants of the loop: one appends `..` like a normal component, one stops at
\* the offending component and returns what it has so far.
Walk_pushes_parent[comps \in Seq(Component), path_to_file \in Seq(Text)] ==
    IF comps = <<>> THEN Some(path_to_file)
    ELSE LET c == Head(comps) IN
         IF c.kind = "ParentDir"
         THEN Walk_pushes_parent[Tail(comps), Push(path_to_file, DotDot)]
         ELSE IF ComponentArm(c) = "push"
         THEN Walk_pushes_parent[Tail(comps), Push(path_to_file, c.s)]
         ELSE IF ComponentArm(c) = "skip" THEN Walk_pushes_parent[Tail(comps), path_to_file]
         ELSE None

Walk_breaks[comps \in Seq(Component), path_to_file \in Seq(Text)] ==
    IF comps = <<>> THEN Some(path_to_file)
    ELSE LET c == Head(comps) IN
         IF ComponentArm(c) = "push" THEN Walk_breaks[Tail(comps), Push(path_to_file, c.s)]
         ELSE IF ComponentArm(c) = "skip" THEN Walk_breaks[Tail(comps), path_to_file]
         ELSE Some(path_to_file)

\* The loop over the components, with its early return.
Walk[comps \in Seq(Component), path_to_file \in Seq(Text)] ==
    IF comps = <<>> THEN Some(path_to_file)
    ELSE LET c == Head(comps) IN
         IF ComponentArm(c) = "push" THEN Walk[Tail(comps), Push(path_to_file, c.s)]
         ELSE IF ComponentArm(c) = "skip" THEN Walk[Tail(comps), path_to_file]
         ELSE None

\* fn build_and_validate_path, and three variants of it: with the percent-decoding
\* left out, and with the two variants of the loop.
build_and_validate_path_undecoded(base_path, req_path) ==
    Walk[Components[trim_start_matches(req_path, Slash)], base_path]

build_and_validate_path_pushes_parent(base_path, req_path) ==
    LET path == trim_start_matches(req_path, Slash)
    IN  IF ~decode_utf8_ok[percent_decode[path]] THEN None
        ELSE Walk_pushes_parent[Components[percent_decode[path]], base_path]

build_and_validate_path_breaks(base_path, req_path) ==
    LET path == trim_start_matches(req_path, Slash)
    IN  IF ~decode_utf8_ok[percent_decode[path]] THEN None
        ELSE Walk_breaks[Components[percent_decode[path]], base_path]

build_and_validate_path(base_path, req_path) ==
    LET path == trim_start_matches(req_path, Slash)
        path_decoded == percent_decode[path]
    IN  IF ~decode_utf8_ok[path_decoded] THEN None
        ELSE Walk[Components[path_decoded], base_path]

\* ------------------------------------------------------------------ inputs

Tokens ==
    { B(<<"/">>), B(<<".">>), B(<<".", ".">>), B(<<"a">>), B(<<"a", "/">>), B(<<"%">>),
      B(<<"%", "2", "e">>), B(<<"%", "2", "5", "2", "e">>), B(<<"%", "2", "f">>),
      B(<<"%", "f", "f">>), B(<<".", "/">>) }

RECURSIVE Concat(_)
Concat(ts) == IF ts = <<>> THEN <<>> ELSE Head(ts) \o Concat(Tail(ts))

\* Every text made of at most n tokens.
TokenTexts(n) == { Concat(ts) : ts \in UNION { [1..k -> Tokens] : k \in 0..n } }

\* The raw paths the Path Resolver is tried on, and the paths of the requests.
RawPaths == TokenTexts(MaxTok)
RequestPaths == { <<Slash>> \o rest : rest \in TokenTexts(MaxReqTok) }

\* The root directories: an absolute-looking one and one that itself holds `..`.
Roots == { <<B(<<"s", "r", "v">>)>>, <<DotDot, B(<<"p", "u", "b">>)>> }

\* -------------------------------------------------------------- filesystem

\* A served tree, read-only while serving: each existing path below the root (as
\* the sequence of its components) with its kind, a file's content and a
\* directory's entries in enumeration order.
File(content) ==
    [kind |-> "file", content |-> content, entries |-> <<>>, len |-> Len(content)]
Dir(entries) == [kind |-> "dir", content |-> <<>>, entries |-> entries, len |-> 4096]

NameA == B(<<"a">>)
NameB == B(<<"b">>)
NameHidden == B(<<".", "a">>)
NameEnc == B(<<"%", "2", "e", "%", "2", "e">>)
NameRaw == <<255>>
Hi == B(<<"h", "i">>)

\* root/{a/{a/, b}, .a}
World1 ==
    (<<>> :> Dir(<<NameA, NameHidden>>))
    @@ (<<NameA>> :> Dir(<<NameA, NameB>>))
    @@ (<<NameA, NameA>> :> Dir(<<>>))
    @@ (<<NameA, NameB>> :> File(Hi))
    @@ (<<NameHidden>> :> File(<<>>))

\* root/{%2e%2e/, a, \xff}: a directory whose name is the text %2e%2e, a regular
\* file a, and a file whose name is one byte that is not UTF-8
World2 ==
    (<<>> :> Dir(<<NameEnc, NameA, NameRaw>>))
    @@ (<<NameA>> :> File(Hi))
    @@ (<<NameEnc>> :> Dir(<<>>))
    @@ (<<NameRaw>> :> File(<<>>))

Worlds == {World1, World2}

\* p relative to root; a path that names nothing when p is not below root.
Rel(root_, p) ==
    IF Len(p) >= Len(root_) /\ SubSeq(p, 1, Len(root_)) = root_
    THEN SubSeq(p, Len(root_) + 1, Len(p))
    ELSE <<<<>>>>

Exists(tree, root_, p) == Rel(root_, p) \in DOMAIN tree
Node(tree, root_, p) == tree[Rel(root_, p)]

\* Path::is_dir(): the path exists and is a directory.
is_dir(tree, root_, p) == Exists(tree, root_, p) /\ Node(tree, root_, p).kind = "dir"
is_file(tree, root_, p) == Exists(tree, root_, p) /\ Node(tree, root_, p).kind = "file"

\* --------------------------------------------------------------- responses

OK == 200
PERMANENT_REDIRECT == 308
BAD_REQUEST == 400
NOT_FOUND == 404
INTERNAL_SERVER_ERROR == 500

\* A response: its status, the terminal state it ends the request in, and what it
\* carries (a redirect's Location, a file's bytes, a listing's DirList).
Response(status, terminal, location, body, listing) ==
    [status |-> status, terminal |-> terminal, location |-> location,
     body |-> body, listing |-> listing]

BadRequest == Response(BAD_REQUEST, "client_error", <<>>, <<>>, <<>>)
ServerError == Response(INTERNAL_SERVER_ERROR, "server_error", <<>>, <<>>, <<>>)
Html(listing) == Response(OK, "listing", <<>>, <<>>, listing)

\* fn add_root_suffix; first a variant that leaves a path that is not empty as
\* it is.
add_root_suffix_unchanged(path) == IF path = <<>> THEN <<Slash>> ELSE path

add_root_suffix(path) == IF path = <<>> THEN <<Slash>> ELSE Append(path, Slash)

\* Redirect::permanent(uri)
RedirectPermanent(uri) == Response(PERMANENT_REDIRECT, "redirect", uri, <<>>, <<>>)

\* A request: its URI path and the OriginalUri extension the router may have set
\* (<<>>: absent, <<p>>: present; the router is nested at "/", so p is the path).
Request(uri, with_ext) == [uri |-> uri, ext |-> IF with_ext THEN <<uri>> ELSE <<>>]

\* fn check_path_suffix: the redirect, or nothing (<<>>); first a variant that
\* redirects to the path as it is.
check_path_suffix_same(req) ==
    LET original_uri == IF req.ext # <<>> THEN req.ext[1] ELSE req.uri
    IN  IF ~ends_with(original_uri, Slash)
        THEN <<RedirectPermanent(original_uri)>>
        ELSE <<>>

check_path_suffix(req) ==
    LET original_uri == IF req.ext # <<>> THEN req.ext[1] ELSE req.uri
    IN  IF ~ends_with(original_uri, Slash)
        THEN <<RedirectPermanent(add_root_suffix(original_uri))>>
        ELSE <<>>

\* --------------------------------------------------------- Directory Lister

\* What the environment does to one directory read: the stream opens and runs, or
\* read_dir fails, or next_entry fails; and the entries whose metadata cannot be read.
StreamOutcomes == {"ok", "read_dir_err", "next_entry_err"}

ListIo(tree, root_, local_path) ==
    LET names == IF is_dir(tree, root_, local_path)
                 THEN { Node(tree, root_, local_path).entries[i] :
                          i \in 1..Len(Node(tree, root_, local_path).entries) }
                 ELSE {}
    IN  [stream : StreamOutcomes, meta_fail : {{}} \cup { {n} : n \in names }]

\* struct DirList; first a variant with a second field.
DirList_with_parent(entries) == [entries |-> entries, parentLink |-> <<Slash>>]

DirList(entries) == [entries |-> entries]

Err == [ok |-> FALSE, val |-> DirList(<<>>)]
Ok(val) == [ok |-> TRUE, val |-> val]

\* `entry.path().is_dir()` picks the etype; first a variant that calls every
\* entry a text.
EntryType_always_text(tree, root_, entry_path) == "text"

EntryType(tree, root_, entry_path) ==
    IF is_dir(tree, root_, entry_path) THEN "folder" ELSE "text"

\* The entries the loop leaves with `continue`: a file name that is not UTF-8
\* (`to_str()` is None) and a name starting with `.`; first a variant that keeps
\* the dot names.
Skipped_undecodable_only(fname) == ~decode_utf8_ok[fname]

Skipped(fname) == ~decode_utf8_ok[fname] \/ fname[1] = Dot

\* The `name` column: `format!("{}/", name)` for a folder, the name otherwise;
\* first a variant that never appends.
DisplayName_bare(fname, etype) == fname

DisplayName(fname, etype) == IF etype = "folder" THEN Append(fname, Slash) ELSE fname

\* `format!("{}.gif", etype)`
Icon(etype) == etype \o ".gif"

\* `format!("{:.1}", x)` of x = num / den, den a power of two (the f64 quotient is
\* exact): the nearest multiple of 1/10, a tie going to the even digit.
Tenths(num, den) ==
    LET t == (10 * num) \div den
        r == (10 * num) % den
    IN  IF 2 * r > den \/ (2 * r = den /\ t % 2 = 1) THEN t + 1 ELSE t

FormatOneDecimal(num, den) ==
    ToString(Tenths(num, den) \div 10) \o "." \o ToString(Tenths(num, den) % 10)

\* The `size` column; first a variant that switches unit one byte late.
SizeLabel_late(etype, size_bytes) ==
    IF etype = "folder" THEN "-"
    ELSE IF size_bytes <= 1024 THEN ToString(size_bytes) \o "B"
    ELSE IF size_bytes <= 1024 * 1024 THEN FormatOneDecimal(size_bytes, 1024) \o "KB"
    ELSE FormatOneDecimal(size_bytes, 1024 * 1024) \o "MB"

SizeLabel(etype, size_bytes) ==
    IF etype = "folder" THEN "-"
    ELSE IF size_bytes < 1024 THEN ToString(size_bytes) \o "B"
    ELSE IF size_bytes < 1024 * 1024 THEN FormatOneDecimal(size_bytes, 1024) \o "KB"
    ELSE FormatOneDecimal(size_bytes, 1024 * 1024) \o "MB"

\* One row of the listing (the `update` column, the formatted modification time,
\* is left out).
DirEntry(path, name, etype, icon, size) ==
    [path |-> path, name |-> name, etype |-> etype, icon |-> icon, size |-> size]

\* The row of the entry fname of local_path; first a variant that links to the
\* bare file name.
EntryRow_bare_path(tree, root_, local_path, fname) ==
    LET etype == EntryType(tree, root_, Append(local_path, fname))
        name == DisplayName(fname, etype)
        size_bytes == Node(tree, root_, Append(local_path, fname)).len
    IN  DirEntry(fname, name, etype, Icon(etype), SizeLabel(etype, size_bytes))

EntryRow(tree, root_, local_path, fname) ==
    LET etype == EntryType(tree, root_, Append(local_path, fname))
        name == DisplayName(fname, etype)
        path == name
        icon == Icon(etype)
        size_bytes == Node(tree, root_, Append(local_path, fname)).len
    IN  DirEntry(path, name, etype, icon, SizeLabel(etype, size_bytes))

\* The while loop over the entries left, df_entries being the rows so far: an
\* entry whose metadata cannot be read ends the whole call with the error (`?`).
RECURSIVE ListLoop(_, _, _, _, _, _)
ListLoop(tree, root_, local_path, names, io, df_entries) ==
    IF names = <<>> THEN Ok(DirList(df_entries))
    ELSE LET fname == Head(names) IN
         IF Skipped(fname)
         THEN ListLoop(tree, root_, local_path, Tail(names), io, df_entries)
         ELSE IF fname \in io.meta_fail THEN Err
         ELSE ListLoop(tree, root_, local_path, Tail(names), io,
                       Append(df_entries, EntryRow(tree, root_, local_path, fname)))

\* async fn get_dir_list
get_dir_list(tree, root_, local_path, io) ==
    IF ~is_dir(tree, root_, local_path) \/ io.stream # "ok" THEN Err
    ELSE ListLoop(tree, root_, local_path, Node(tree, root_, local_path).entries, io, <<>>)

\* fn render_template: the page, or the template engine's error.
RenderOutcomes == {"ok", "render_err"}

\* ------------------------------------------------------ static-file responder

\* ServeDir::try_call(req) rooted at serve_root: the bytes of an existing regular
\* file, 404 for anything else, or an error of its own.
ServeOutcomes == {"ok", "serve_err"}

ServeDir(tree, root_, serve_root, req, io) ==
    LET p == build_and_validate_path(serve_root, req.uri) IN
    IF io = "serve_err" THEN [ok |-> FALSE, res |-> ServerError]
    ELSE IF p.some /\ is_file(tree, root_, p.path)
    THEN [ok |-> TRUE,
          res |-> Response(OK, "file", <<>>, Node(tree, root_, p.path).content, <<>>)]
    ELSE [ok |-> TRUE, res |-> Response(NOT_FOUND, "file", <<>>, <<>>, <<>>)]

\* What the environment did to the request's I/O, before any of it happened.
NoListIo == [stream |-> "none", meta_fail |-> {}]

\* No request: the handler's locals before a request arrives and after it is answered.
NoRequest ==
    [pc |-> "Start", req |-> Request(<<>>, FALSE), file_path |-> None,
     calls |-> <<>>, dir_list |-> DirList(<<>>), out |-> <<>>,
     list_io |-> NoListIo, render_io |-> "none", serve_io |-> "none"]

\* No call of a pure function yet, and no result.
NoCall == [fn |-> "none"]
NoRet == [done |-> FALSE, ok |-> FALSE, val |-> 0]
Ret(ok, val) == [done |-> TRUE, ok |-> ok, val |-> val]

\* The call did not return: the thread panicked.
Panic == [done |-> TRUE, ok |-> FALSE, val |-> "panicked"]

\* A filesystem or responder call the handler made: what, on which path, and for
\* the responder the URI path of the request handed over.
Call(op, at, uri) == [op |-> op, at |-> at, uri |-> uri]

\* ------------------------------------------------- the Path Resolver alone

InitResolve ==
    /\ rv_pc = "call"
    /\ rv_root \in Roots
    /\ rv_path \in RawPaths
    /\ rv_result = None
    /\ fn_call = NoCall
    /\ fn_ret = NoRet
    /\ server = "init"
    /\ root = <<>>
    /\ fs = World1
    /\ h = NoRequest
    /\ hs = <<>>
    /\ failed = FALSE

ResolveCall ==
    /\ rv_pc = "call"
    /\ rv_result' = build_and_validate_path(rv_root, rv_path)
    /\ rv_pc' = "ret"
    /\ UNCHANGED <<rv_root, rv_path>>
    /\ UNCHANGED <<srv_vars, fn_vars, hs>>

NextResolve == ResolveCall

SpecResolve == InitResolve /\ [][NextResolve]_vars

\* ------------------------------------------------------------ command line

\* const PORT_RANGE
PORT_RANGE == 1..65535

\* The value of a string of decimal digits.
ParseDigits[s \in Text] ==
    IF s = <<>> THEN 0 ELSE 10 * ParseDigits[SubSeq(s, 1, Len(s) - 1)] + (s[Len(s)] - 48)

\* `s.parse::<usize>()`: an optional `+`, then one or more decimal digits (a `-`
\* is no digit of an unsigned type); a usize holds every value of the strings
\* tried here, so the overflow error does not arise.
parse_usize(s) ==
    LET digits == IF s # <<>> /\ s[1] = Byte("+") THEN Tail(s) ELSE s
    IN  IF digits = <<>> \/ \E i \in 1..Len(digits) : digits[i] < 48 \/ digits[i] > 57
        THEN Ret(FALSE, "invalid")
        ELSE Ret(TRUE, ParseDigits[digits])

\* fn validate_port, `port as u16` keeping the low 16 bits; first a variant
\* without the range check.
validate_port_unchecked(s) ==
    LET port == parse_usize(s)
    IN  IF ~port.ok THEN Ret(FALSE, "isn't a port number")
        ELSE Ret(TRUE, port.val % 65536)

validate_port(s) ==
    LET port == parse_usize(s)
    IN  IF ~port.ok THEN Ret(FALSE, "isn't a port number")
        ELSE IF port.val \in PORT_RANGE THEN Ret(TRUE, port.val % 65536)
        ELSE Ret(FALSE, "port not in range")

\* --------------------------------------------------------- text encryption

\* The sum of the bytes of s.
RECURSIVE SumBytes(_)
SumBytes(s) == IF s = <<>> THEN 0 ELSE Head(s) + SumBytes(Tail(s))

\* ChaCha20Poly1305 stands behind MyChaCha20Poly1305 as an AEAD over a 32-byte
\* key and a 12-byte nonce: a keystream added to the plaintext byte by byte, and
\* a 16-byte tag over key, nonce and ciphertext that decryption verifies.
KeyStream(key, nonce, i) ==
    (key[((i - 1) % 32) + 1] + nonce[((i - 1) % 12) + 1] + i) % 256

AeadTag(key, nonce, ct) ==
    [j \in 1..16 |-> (SumBytes(ct) + key[j] + nonce[((j - 1) % 12) + 1] + j) % 256]

\* impl TextEncryptor for MyChaCha20Poly1305
AeadEncrypt(key, nonce, plaintext) ==
    LET ct == [i \in 1..Len(plaintext) |->
                 (plaintext[i] + KeyStream(key, nonce, i)) % 256]
    IN  Ret(TRUE, ct \o AeadTag(key, nonce, ct))

\* impl TextDecrypter for MyChaCha20Poly1305
AeadDecrypt(key, nonce, ciphertext) ==
    IF Len(ciphertext) < 16 THEN Ret(FALSE, "decryption failed")
    ELSE LET ct == SubSeq(ciphertext, 1, Len(ciphertext) - 16)
             tag == SubSeq(ciphertext, Len(ciphertext) - 15, Len(ciphertext))
         IN  IF tag # AeadTag(key, nonce, ct) THEN Ret(FALSE, "decryption failed")
             ELSE Ret(TRUE, [i \in 1..Len(ct) |->
                               (ct[i] + 256 - KeyStream(key, nonce, i)) % 256])

\* MyChaCha20Poly1305::new: Key::from_slice panics on a slice that is not 32 bytes.
KeyFits(key) == Len(key) = 32

\* fn process_text_encrypt, nonce being what generate_nonce(&mut OsRng) drew.
process_text_encrypt(message, key, format, nonce) ==
    IF format # "chacha20poly1305" THEN Ret(FALSE, "unsupported format")
    ELSE IF ~KeyFits(key) THEN Panic
    ELSE LET ciphertext == AeadEncrypt(key, nonce, message)
         IN  IF ciphertext.ok THEN Ret(TRUE, ciphertext.val \o nonce) ELSE ciphertext

\* fn process_text_decrypt: `message.len() - 12` overflows below 12 bytes, which
\* panics at the subtraction (overflow checks on) or, wrapped to a position past
\* the end, in split_at; first a variant that takes the nonce from the front.
process_text_decrypt_nonce_first(message, key, format) ==
    IF format # "chacha20poly1305" THEN Ret(FALSE, "unsupported format")
    ELSE IF Len(message) < 12 THEN Panic
    ELSE IF ~KeyFits(key) THEN Panic
    ELSE AeadDecrypt(key, SubSeq(message, 1, 12), SubSeq(message, 13, Len(message)))

process_text_decrypt(message, key, format) ==
    IF format # "chacha20poly1305" THEN Ret(FALSE, "unsupported format")
    ELSE IF Len(message) < 12 THEN Panic
    ELSE IF ~KeyFits(key) THEN Panic
    ELSE LET ciphertext == SubSeq(message, 1, Len(message) - 12)
             nonce == SubSeq(message, Len(message) - 11, Len(message))
         IN  AeadDecrypt(key, nonce, ciphertext)

\* ------------------------------------------------------ password generation

\* The bytes from lo to hi, in order, without those in skip.
ByteRange(lo, hi, skip) ==
    SelectSeq([i \in 1..(hi - lo + 1) |-> lo + i - 1], LAMBDA b : b \notin skip)

\* const LOWER (no `i`, no `o`), UPPER (no `I`), DIGITS (no `0`), SYMBOL
LOWER == ByteRange(97, 122, {105, 111})
UPPER == ByteRange(65, 90, {73})
DIGITS == ByteRange(49, 57, {})
SYMBOL == <<33, 64, 35, 36, 37, 94, 38, 42>>

\* `slice.choose(&mut rng)` and `rng.gen_range(0..n)`: the k-th draw of generator
\* seed from a slice that is not empty.
Draw(slice, seed, k) == slice[((7 * seed + 3 * k) % Len(slice)) + 1]

\* `password.shuffle(&mut rng)`: a permutation, here the reversal or the identity.
Shuffle(password, seed) ==
    IF seed % 2 = 1 THEN [i \in 1..Len(password) |-> password[Len(password) + 1 - i]]
    ELSE password

\* The slice, or nothing, by its flag.
If(flag, slice) == IF flag THEN slice ELSE <<>>

\* fn process_genpass, with the generator and the build's overflow checks: the
\* password printed, or the panic.  `length - password.len() as u8` is a u8
\* subtraction: below zero it panics with overflow checks and wraps without;
\* gen_range panics on the empty range 0..0; zxcvbn refuses the blank password.
process_genpass(length, lower, upper, digits, symbol, seed, overflow_checks) ==
    LET charset == If(lower, LOWER) \o If(upper, UPPER) \o If(digits, DIGITS)
                   \o If(symbol, SYMBOL)
        first == If(lower, <<Draw(LOWER, seed, 1)>>) \o If(upper, <<Draw(UPPER, seed, 2)>>)
                 \o If(digits, <<Draw(DIGITS, seed, 3)>>)
                 \o If(symbol, <<Draw(SYMBOL, seed, 4)>>)
        charset_len == Len(charset)
        count == (length - Len(first)) % 256
    IN  IF length < Len(first) /\ overflow_checks THEN Panic
        ELSE IF count > 0 /\ charset_len = 0 THEN Panic
        ELSE LET password == Shuffle(first \o [k \in 1..count |-> Draw(charset, seed, 4 + k)],
                                     seed)
             IN  IF password = <<>> THEN Ret(FALSE, password) ELSE Ret(TRUE, password)

\* ----------------------------------------------- the pure functions alone

\* The sizes tried: each power of two up to 2^MaxSizeExp, its neighbours, and the
\* values a quarter and three quarters of the way to the next one.
Sizes ==
    UNION { { 2^j - 1, 2^j, 2^j + 1 } : j \in 0..MaxSizeExp }
    \cup UNION { { 2^j + 2^(j - 2), 2^j + 3 * 2^(j - 2) } : j \in 2..MaxSizeExp }

\* The strings tried as a port.
PortChars == { Byte("0"), Byte("3"), Byte("5"), Byte("6"), Byte("+"), Byte("-"), Byte("a") }
PortStrings == UNION { [1..n -> PortChars] : n \in 0..MaxPortLen }

SizeCalls == [fn : {"size"}, etype : {"folder", "text"}, size_bytes : Sizes]
PortCalls == [fn : {"validate_port"}, s : PortStrings]

\* The messages, keys, nonces and cipher names tried: two 32-byte keys and one that
\* is too short, two 12-byte nonces.
Messages == UNION { [1..n -> {0, 104, 255}] : n \in 0..MaxMsgLen }
Keys == { [i \in 1..32 |-> 7], [i \in 1..32 |-> (37 * i) % 256], [i \in 1..16 |-> 7] }
Nonces == { [i \in 1..12 |-> 0], [i \in 1..12 |-> (251 * i) % 256] }
Formats == {"chacha20poly1305", "aes"}

\* The inputs handed to decryption as they are: every length up to MaxInputLen.
DecryptInputs == { [i \in 1..n |-> (5 * i) % 256] : n \in 0..MaxInputLen }

\* A call of decryption: on an input as it is (sent and nonce empty), or on what
\* encryption returned for the message sent with the nonce drawn.
DecryptCall(message, key, format, sent, nonce) ==
    [fn |-> "decrypt", message |-> message, key |-> key, format |-> format,
     sent |-> sent, nonce |-> nonce]

\* Every 8-bit length, every combination of the flags, each generator, and both
\* builds.
GenPassCalls ==
    [fn : {"genpass"}, length : 0..255, lower : BOOLEAN, upper : BOOLEAN,
     digits : BOOLEAN, symbol : BOOLEAN, seed : 0..MaxSeed, overflow_checks : BOOLEAN]

EncryptCalls == [fn : {"encrypt"}, message : Messages, key : Keys, format : Formats]
DecryptCalls ==
    { DecryptCall(m, k, f, <<>>, <<>>) : m \in DecryptInputs, k \in Keys, f \in Formats }

InitPure ==
    /\ fn_call \in SizeCalls \cup PortCalls \cup EncryptCalls \cup DecryptCalls
                    \cup GenPassCalls
    /\ fn_ret = NoRet
    /\ rv_pc = "call"
    /\ rv_root = <<>>
    /\ rv_path = <<>>
    /\ rv_result = None
    /\ server = "init"
    /\ root = <<>>
    /\ fs = World1
    /\ h = NoRequest
    /\ hs = <<>>
    /\ failed = FALSE

\* The size column of one entry is formatted.
FormatSize ==
    /\ fn_call.fn = "size"
    /\ ~fn_ret.done
    /\ fn_ret' = Ret(TRUE, SizeLabel(fn_call.etype, fn_call.size_bytes))
    /\ UNCHANGED <<fn_call, rv_vars, srv_vars, hs>>

\* clap hands the --port argument to validate_port.
ValidatePort ==
    /\ fn_call.fn = "validate_port"
    /\ ~fn_ret.done
    /\ fn_ret' = validate_port(fn_call.s)
    /\ UNCHANGED <<fn_call, rv_vars, srv_vars, hs>>

\* process_text_encrypt draws a nonce and returns; what it returned then goes to
\* process_text_decrypt with the same key.
Encrypt ==
    /\ fn_call.fn = "encrypt"
    /\ ~fn_ret.done
    /\ \E nonce \in Nonces :
         LET encrypted == process_text_encrypt(fn_call.message, fn_call.key,
                                               fn_call.format, nonce)
         IN  IF encrypted.ok
             THEN /\ fn_call' = DecryptCall(encrypted.val, fn_call.key, fn_call.format,
                                            fn_call.message, nonce)
                  /\ fn_ret' = fn_ret
             ELSE /\ fn_ret' = encrypted
                  /\ fn_call' = fn_call
    /\ UNCHANGED <<rv_vars, srv_vars, hs>>

Decrypt ==
    /\ fn_call.fn = "decrypt"
    /\ ~fn_ret.done
    /\ fn_ret' = process_text_decrypt(fn_call.message, fn_call.key, fn_call.format)
    /\ UNCHANGED <<fn_call, rv_vars, srv_vars, hs>>

GenPass ==
    /\ fn_call.fn = "genpass"
    /\ ~fn_ret.done
    /\ fn_ret' = process_genpass(fn_call.length, fn_call.lower, fn_call.upper,
                                 fn_call.digits, fn_call.symbol, fn_call.seed,
                                 fn_call.overflow_checks)
    /\ UNCHANGED <<fn_call, rv_vars, srv_vars, hs>>

NextPure == FormatSize \/ ValidatePort \/ Encrypt \/ Decrypt \/ GenPass

SpecPure == InitPure /\ [][NextPure]_vars

\* ---------------------------------------------------------------- the server

\* The steps of file_service on the request in h, each returning the new h.

\* The response is returned: the request reaches its terminal state.
Respond(hh, res) == [hh EXCEPT !.pc = "Done", !.out = Append(@, res)]

\* Resolving: build_and_validate_path, and 400 when it rejects.
ResolveStep_falls_back(hh, root_) ==
    LET file_path == build_and_validate_path(root_, hh.req.uri) IN
    [hh EXCEPT !.pc = "Inspecting",
               !.file_path = IF file_path.some THEN file_path ELSE Some(root_)]

ResolveStep(hh, root_) ==
    LET file_path == build_and_validate_path(root_, hh.req.uri) IN
    IF file_path.some
    THEN [hh EXCEPT !.pc = "Inspecting", !.file_path = file_path]
    ELSE Respond(hh, BadRequest)

\* `if file_path.is_dir()`
InspectStep_swapped(hh, tree, root_) ==
    [hh EXCEPT !.pc = IF is_dir(tree, root_, hh.file_path.path)
                      THEN "FileBranch" ELSE "DirectoryBranch",
               !.calls = Append(@, Call("is_dir", hh.file_path.path, <<>>))]

InspectStep(hh, tree, root_) ==
    [hh EXCEPT !.pc = IF is_dir(tree, root_, hh.file_path.path)
                      THEN "DirectoryBranch" ELSE "FileBranch",
               !.calls = Append(@, Call("is_dir", hh.file_path.path, <<>>))]

\* DirectoryBranch: the redirect of check_path_suffix, or on to the listing.
SuffixStep_falls_through(hh) ==
    IF check_path_suffix(hh.req) # <<>>
    THEN [hh EXCEPT !.pc = "Listing", !.out = Append(@, check_path_suffix(hh.req)[1])]
    ELSE [hh EXCEPT !.pc = "Listing"]

SuffixStep(hh) ==
    IF check_path_suffix(hh.req) # <<>>
    THEN Respond(hh, check_path_suffix(hh.req)[1])
    ELSE [hh EXCEPT !.pc = "Listing"]

\* `match get_dir_list(file_path).await`
ListStep_unwraps(hh, tree, root_, io) ==
    LET r == get_dir_list(tree, root_, hh.file_path.path, io)
        called == [hh EXCEPT !.calls = Append(@, Call("read_dir", hh.file_path.path, <<>>))]
    IN  IF r.ok THEN [called EXCEPT !.pc = "Rendering", !.dir_list = r.val]
        ELSE [called EXCEPT !.pc = "Panicked"]

ListStep(hh, tree, root_, io) ==
    LET r == get_dir_list(tree, root_, hh.file_path.path, io)
        called == [hh EXCEPT !.calls = Append(@, Call("read_dir", hh.file_path.path, <<>>))]
    IN  IF r.ok THEN [called EXCEPT !.pc = "Rendering", !.dir_list = r.val]
        ELSE Respond(called, ServerError)

\* `match render_template(metadata)`
RenderStep(hh, io) ==
    IF io = "ok" THEN Respond(hh, Html(hh.dir_list)) ELSE Respond(hh, ServerError)

\* FileBranch: the original request goes to ServeDir, rooted at state.path.
ServeStep_rooted_at_file(hh, tree, root_, io) ==
    LET r == ServeDir(tree, root_, hh.file_path.path, hh.req, io)
        called == [hh EXCEPT !.calls =
                      Append(@, Call("serve_dir", hh.file_path.path, hh.req.uri))]
    IN  IF r.ok THEN Respond(called, r.res) ELSE Respond(called, ServerError)

ServeStep(hh, tree, root_, io) ==
    LET r == ServeDir(tree, root_, root_, hh.req, io)
        called == [hh EXCEPT !.calls = Append(@, Call("serve_dir", root_, hh.req.uri))]
    IN  IF r.ok THEN Respond(called, r.res) ELSE Respond(called, ServerError)

Init ==
    /\ server = "init"
    /\ root \in Roots
    /\ fs \in Worlds
    /\ h = NoRequest
    /\ failed = FALSE
    /\ rv_pc = "call"
    /\ rv_root = <<>>
    /\ rv_path = <<>>
    /\ rv_result = None
    /\ fn_call = NoCall
    /\ fn_ret = NoRet
    /\ hs = <<>>

\* process_http_serve: the listener is bound, or binding fails and the process ends.
Bind ==
    /\ server = "init"
    /\ server' \in {"listening", "exited"}
    /\ UNCHANGED <<root, fs, h, failed>>
    /\ UNCHANGED <<rv_vars, fn_vars, hs>>

\* A GET request arrives: its path starts with `/`.
Accept ==
    /\ server = "listening"
    /\ h.pc = "Start"
    /\ \E uri \in RequestPaths, with_ext \in BOOLEAN :
         h' = [NoRequest EXCEPT !.pc = "Resolving", !.req = Request(uri, with_ext)]
    /\ UNCHANGED <<server, root, fs, failed>>
    /\ UNCHANGED <<rv_vars, fn_vars, hs>>

Resolve ==
    /\ h.pc = "Resolving"
    /\ h' = ResolveStep(h, root)
    /\ UNCHANGED <<server, root, fs, failed>>
    /\ UNCHANGED <<rv_vars, fn_vars, hs>>

Inspect ==
    /\ h.pc = "Inspecting"
    /\ h' = InspectStep(h, fs, root)
    /\ UNCHANGED <<server, root, fs, failed>>
    /\ UNCHANGED <<rv_vars, fn_vars, hs>>

Suffix ==
    /\ h.pc = "DirectoryBranch"
    /\ h' = SuffixStep(h)
    /\ UNCHANGED <<server, root, fs, failed>>
    /\ UNCHANGED <<rv_vars, fn_vars, hs>>

List ==
    /\ h.pc = "Listing"
    /\ \E io \in ListIo(fs, root, h.file_path.path) :
         h' = [ListStep(h, fs, root, io) EXCEPT !.list_io = io]
    /\ UNCHANGED <<server, root, fs, failed>>
    /\ UNCHANGED <<rv_vars, fn_vars, hs>>

Render ==
    /\ h.pc = "Rendering"
    /\ \E io \in RenderOutcomes : h' = [RenderStep(h, io) EXCEPT !.render_io = io]
    /\ UNCHANGED <<server, root, fs, failed>>
    /\ UNCHANGED <<rv_vars, fn_vars, hs>>

Serve ==
    /\ h.pc = "FileBranch"
    /\ \E io \in ServeOutcomes : h' = [ServeStep(h, fs, root, io) EXCEPT !.serve_io = io]
    /\ UNCHANGED <<server, root, fs, failed>>
    /\ UNCHANGED <<rv_vars, fn_vars, hs>>

\* The request ended in a client or server error.
EndedInError(hh) ==
    hh.pc = "Done" /\ \E i \in 1..Len(hh.out) : hh.out[i].status >= BAD_REQUEST

\* axum::serve: the response is sent, the handler's locals are dropped, and the
\* listener goes on accepting.
Complete_exits ==
    /\ h.pc = "Done"
    /\ h' = NoRequest
    /\ server' = IF EndedInError(h) THEN "exited" ELSE server
    /\ failed' = (failed \/ EndedInError(h))
    /\ UNCHANGED <<root, fs>>
    /\ UNCHANGED <<rv_vars, fn_vars, hs>>

Complete ==
    /\ h.pc = "Done"
    /\ h' = NoRequest
    /\ failed' = (failed \/ EndedInError(h))
    /\ UNCHANGED <<server, root, fs>>
    /\ UNCHANGED <<rv_vars, fn_vars, hs>>

\* The steps of the handler on the request in flight.
HandlerStep == Resolve \/ Inspect \/ Suffix \/ List \/ Render \/ Serve

Next == Bind \/ Accept \/ HandlerStep \/ Complete

Spec == Init /\ [][Next]_vars

\* The runtime polls a handler whose I/O has completed, and sends its response.
FairSpec == Spec /\ WF_vars(HandlerStep) /\ WF_vars(Complete)

\* ------------------------------------------- requests handled concurrently

\* axum::serve spawns one task per connection; each runs file_service on its own
\* request with a clone of the Arc<HttpServeState>.
Tasks == 1..MaxTasks

\* The paths of the concurrent requests: the root, a directory without and with
\* its `/`, a file, a name that does not exist, and a path that is rejected.
ConcPaths ==
    { B(<<"/">>), B(<<"/", "a">>), B(<<"/", "a", "/">>), B(<<"/", "a", "/", "b">>),
      B(<<"/", "b">>), B(<<"/", ".", ".">>) }

InitConc ==
    /\ server = "listening"
    /\ root \in Roots
    /\ fs = World1
    /\ hs = [i \in Tasks |-> NoRequest]
    /\ h = NoRequest
    /\ failed = FALSE
    /\ rv_pc = "call"
    /\ rv_root = <<>>
    /\ rv_path = <<>>
    /\ rv_result = None
    /\ fn_call = NoCall
    /\ fn_ret = NoRet

\* What a step of task i leaves alone.
ConcFrame == UNCHANGED <<server, root, fs, h, failed, rv_vars, fn_vars>>

CAccept(i) ==
    /\ server = "listening"
    /\ hs[i].pc = "Start"
    /\ \E uri \in ConcPaths :
         hs' = [hs EXCEPT ![i] = [NoRequest EXCEPT !.pc = "Resolving",
                                                   !.req = Request(uri, TRUE)]]
    /\ ConcFrame

\* Resolving; first a variant that keeps the resolved path in one place for all
\* the tasks, overwriting what another task at the same point had resolved.
CResolve_shared(i) ==
    /\ hs[i].pc = "Resolving"
    /\ hs' = [j \in Tasks |->
                IF j = i THEN ResolveStep(hs[i], root)
                ELSE IF hs[j].pc = "Inspecting" /\ ResolveStep(hs[i], root).file_path.some
                THEN [hs[j] EXCEPT !.file_path = ResolveStep(hs[i], root).file_path]
                ELSE hs[j]]
    /\ ConcFrame

CResolve(i) ==
    /\ hs[i].pc = "Resolving"
    /\ hs' = [hs EXCEPT ![i] = ResolveStep(hs[i], root)]
    /\ ConcFrame

CInspect(i) ==
    /\ hs[i].pc = "Inspecting"
    /\ hs' = [hs EXCEPT ![i] = InspectStep(hs[i], fs, root)]
    /\ ConcFrame

CSuffix(i) ==
    /\ hs[i].pc = "DirectoryBranch"
    /\ hs' = [hs EXCEPT ![i] = SuffixStep(hs[i])]
    /\ ConcFrame

CList(i) ==
    /\ hs[i].pc = "Listing"
    /\ \E io \in ListIo(fs, root, hs[i].file_path.path) :
         hs' = [hs EXCEPT ![i] = [ListStep(hs[i], fs, root, io) EXCEPT !.list_io = io]]
    /\ ConcFrame

CRender(i) ==
    /\ hs[i].pc = "Rendering"
    /\ \E io \in RenderOutcomes :
         hs' = [hs EXCEPT ![i] = [RenderStep(hs[i], io) EXCEPT !.render_io = io]]
    /\ ConcFrame

CServe(i) ==
    /\ hs[i].pc = "FileBranch"
    /\ \E io \in ServeOutcomes :
         hs' = [hs EXCEPT ![i] = [ServeStep(hs[i], fs, root, io) EXCEPT !.serve_io = io]]
    /\ ConcFrame

\* The response of task i is sent and the task ends.
CComplete(i) ==
    /\ hs[i].pc = "Done"
    /\ hs' = [hs EXCEPT ![i] = NoRequest]
    /\ ConcFrame

NextConc ==
    \E i \in Tasks :
        \/ CAccept(i)
        \/ CResolve(i)
        \/ CInspect(i)
        \/ CSuffix(i)
        \/ CList(i)
        \/ CRender(i)
        \/ CServe(i)
        \/ CComplete(i)

SpecConc == InitConc /\ [][NextConc]_vars

\* ------------------------------------------------------------ the claims

\* The maximal separator-free, non-empty pieces of a text, found by position.
SegmentsOf(d) ==
    { SubSeq(d, i, j) : <<i, j>> \in
        { ij \in (1..Len(d)) \X (1..Len(d)) :
            /\ ij[1] <= ij[2]
            /\ \A k \in ij[1]..ij[2] : d[k] # Slash
            /\ (ij[1] = 1 \/ d[ij[1] - 1] = Slash)
            /\ (ij[2] = Len(d) \/ d[ij[2] + 1] = Slash) } }

\* A name that is one normal component: not empty, not `.`, not `..`, no separator.
IsNormalName(comp) ==
    /\ comp # <<>>
    /\ comp # <<Dot>>
    /\ comp # DotDot
    /\ \A i \in 1..Len(comp) : comp[i] # Slash

\* p is root followed by zero or more normal components.
Confined(root_, p) ==
    /\ Len(p) >= Len(root_)
    /\ SubSeq(p, 1, Len(root_)) = root_
    /\ \A i \in (Len(root_) + 1)..Len(p) : IsNormalName(p[i])

\* C1: whenever build_and_validate_path returns a path, the path is the root
\* followed by zero or more appended normal components, so it is never lexically
\* outside the root.
C1_Confinement ==
    (rv_pc = "ret" /\ rv_result.some) => Confined(rv_root, rv_result.path)

\* C1's case: a path was returned with at least two components appended to the root.
C1_Witness ==
    rv_pc = "ret" /\ rv_result.some /\ Len(rv_result.path) >= Len(rv_root) + 2

\* The raw request path holds a `..` segment written with at most n rounds of
\* percent-encoding (n = 0: raw).
RECURSIVE DecodeTimes(_, _)
DecodeTimes(s, n) == IF n = 0 THEN s ELSE DecodeTimes(percent_decode[s], n - 1)

HasDotDotSegment(raw, n) ==
    \E seg \in SegmentsOf(raw) : \E k \in 0..n : DecodeTimes(seg, k) = DotDot

\* C2 as stated: a request path with a `..` segment, raw, encoded once or encoded
\* twice, is rejected.
C2_AsStated ==
    (rv_pc = "ret" /\ HasDotDotSegment(rv_path, 2)) => ~rv_result.some

\* C2 as amended: a request path with a `..` segment written raw or percent-encoded
\* once is rejected; a segment encoded twice is decoded once only, and the path
\* `%252e%252e` resolves to the normal component `%2e%2e` under the root.
C2_RejectsDotDot ==
    /\ (rv_pc = "ret" /\ HasDotDotSegment(rv_path, 1)) => ~rv_result.some
    /\ (rv_pc = "ret" /\ rv_path = B(<<"%", "2", "5", "2", "e", "%", "2", "5", "2", "e">>))
         => rv_result = Some(Append(rv_root, B(<<"%", "2", "e", "%", "2", "e">>)))

\* C2's case: a `..` segment that is percent-encoded, not raw, was rejected.
C2_Witness ==
    /\ rv_pc = "ret"
    /\ HasDotDotSegment(rv_path, 1)
    /\ ~HasDotDotSegment(rv_path, 0)
    /\ ~rv_result.some

\* The percent-decoded request path, as the resolver sees it.
Decoded(raw) == percent_decode[trim_start_matches(raw, Slash)]

\* The decoded text holds a `..` component or starts at the absolute root.
Offending(d) == (d # <<>> /\ d[1] = Slash) \/ DotDot \in SegmentsOf(d)

\* C3: if the decoded request path holds a parent-directory or absolute-root
\* component at any position, the whole request is rejected: no path is returned,
\* not even the part resolved before the offending component.
C3_RejectsWhole ==
    (rv_pc = "ret" /\ decode_utf8_ok[Decoded(rv_path)] /\ Offending(Decoded(rv_path)))
        => rv_result = None

\* C3's case: the offending component follows a normal one, and the call returned
\* nothing.
C3_Witness ==
    /\ rv_pc = "ret"
    /\ Offending(Decoded(rv_path))
    /\ Decoded(rv_path) # <<>>
    /\ Decoded(rv_path)[1] \notin {Slash, Dot}
    /\ rv_result = None

\* The handler made a call of this kind for the request in h.
Called(op) == \E i \in 1..Len(h.calls) : h.calls[i].op = op

\* The request in h has been resolved to a local path.
Resolved == h.pc \notin {"Start", "Resolving"} /\ h.file_path.some

\* C4: when the Path Resolver rejects a request, the dispatcher answers 400 and
\* makes no filesystem-type inspection, no directory enumeration and no call of
\* the static-file responder for it.
C4_RejectedNoAccess ==
    (h.pc \notin {"Start", "Resolving"} /\ ~build_and_validate_path(root, h.req.uri).some)
        => (h.pc = "Done" /\ h.out = <<BadRequest>> /\ h.calls = <<>>)

\* C4's case: a request whose path climbs with `..` has been answered 400.
C4_Witness ==
    /\ h.pc = "Done"
    /\ DotDot \in SegmentsOf(h.req.uri)
    /\ h.out = <<BadRequest>>

\* C5: an accepted request whose local path is a directory goes to the
\* DirectoryBranch and never to the static-file responder; any other (a file, or
\* nothing) goes to the FileBranch and never to the Directory Lister.
C5_BranchByType ==
    (Resolved /\ h.pc # "Inspecting") =>
        IF is_dir(fs, root, h.file_path.path)
        THEN /\ h.pc \in {"DirectoryBranch", "Listing", "Rendering", "Done"}
             /\ ~Called("serve_dir")
             /\ h.pc = "Done" => h.out[1].terminal \in {"redirect", "listing", "server_error"}
        ELSE /\ h.pc \in {"FileBranch", "Done"}
             /\ ~Called("read_dir")
             /\ h.pc = "Done" => (Called("serve_dir")
                                  /\ h.out[1].terminal \in {"file", "server_error"})

\* C5's case: a path that does not exist was handed to the static-file responder.
C5_Witness ==
    /\ h.pc = "Done"
    /\ Resolved
    /\ ~Exists(fs, root, h.file_path.path)
    /\ Called("serve_dir")

\* C6: a request for an existing directory whose path does not end in `/` is
\* answered with a permanent redirect to the same path with one `/` appended (`/`
\* for the empty path); with the trailing `/` it is not redirected and goes on to
\* the listing.
C6_TrailingSlash ==
    /\ add_root_suffix(<<>>) = <<Slash>>
    /\ (h.pc = "Done" /\ Resolved /\ is_dir(fs, root, h.file_path.path)) =>
          IF ends_with(h.req.uri, Slash)
          THEN h.out[1].terminal # "redirect" /\ Called("read_dir")
          ELSE h.out = <<RedirectPermanent(Append(h.req.uri, Slash))>> /\ ~Called("read_dir")

\* C6's case: a directory below the root, asked for without the `/`, was redirected.
C6_Witness ==
    /\ h.pc = "Done"
    /\ Resolved
    /\ Len(h.file_path.path) > Len(root)
    /\ h.out # <<>>
    /\ h.out[1].terminal = "redirect"
    /\ h.out[1].location = Append(h.req.uri, Slash)

\* C7: in FileBranch the static-file responder gets the original request and the
\* configured root, and its response is returned as is: 200 with the content for
\* an existing regular file, 404 for a path that does not exist.
C7_FileBranch ==
    (h.pc = "Done" /\ Resolved /\ ~is_dir(fs, root, h.file_path.path)) =>
        /\ h.calls = << Call("is_dir", h.file_path.path, <<>>),
                        Call("serve_dir", root, h.req.uri) >>
        /\ h.serve_io = "ok" =>
             IF is_file(fs, root, h.file_path.path)
             THEN h.out = <<Response(OK, "file", <<>>,
                                     Node(fs, root, h.file_path.path).content, <<>>)>>
             ELSE h.out = <<Response(NOT_FOUND, "file", <<>>, <<>>, <<>>)>>

\* C7's case: an existing file with content was fetched.
C7_Witness ==
    /\ h.pc = "Done"
    /\ Resolved
    /\ is_file(fs, root, h.file_path.path)
    /\ h.out # <<>>
    /\ h.out[1].status = OK
    /\ h.out[1].body = Hi

\* The terminal states and the status each answers with.
TerminalOf(res) ==
    \/ res.terminal = "redirect" /\ res.status = PERMANENT_REDIRECT
    \/ res.terminal = "listing" /\ res.status = OK
    \/ res.terminal = "file" /\ res.status \in {OK, NOT_FOUND}
    \/ res.terminal = "client_error" /\ res.status = BAD_REQUEST
    \/ res.terminal = "server_error" /\ res.status = INTERNAL_SERVER_ERROR

\* C8: every request that enters the dispatcher ends in exactly one of redirect,
\* rendered listing, delegated file response, client error and server error, with
\* exactly one response; none is left without a response.
C8_OneTerminal ==
    /\ [](h.pc \in {"Start", "Resolving", "Inspecting", "DirectoryBranch", "Listing",
                    "Rendering", "FileBranch", "Done"})
    /\ [](IF h.pc = "Done" THEN Len(h.out) = 1 /\ TerminalOf(h.out[1]) ELSE h.out = <<>>)
    /\ (h.pc = "Resolving") ~> (h.pc = "Done")

\* C8's case: a request ended in a rendered listing with entries.
C8_Witness ==
    /\ h.pc = "Done"
    /\ h.out # <<>>
    /\ h.out[1].terminal = "listing"
    /\ h.out[1].listing.entries # <<>>

\* C9: a failure of the directory stream, of the template rendering or of the
\* static-file responder ends the request in the server-error state with a 500;
\* it does not leave the handler any other way.
C9_FailuresBecome500 ==
    (\/ h.list_io.stream \in {"read_dir_err", "next_entry_err"}
     \/ h.render_io = "render_err"
     \/ h.serve_io = "serve_err")
        => (h.pc = "Done" /\ h.out = <<ServerError>> /\ server = "listening")

\* C9's case: the directory stream failed while it was read.
C9_Witness ==
    /\ h.pc = "Done"
    /\ h.list_io.stream = "next_entry_err"
    /\ h.out = <<ServerError>>

\* C10: a failed request never terminates the listener: while a request is handled
\* and when its response is sent, the listener stays up and the root and the tree
\* are untouched, and once the response is sent nothing of the request remains, so
\* the server is in the state it was in before the request and answers every later
\* request as it would have.
C10_ListenerSurvives ==
    /\ [][h.pc # "Start" => (server' = "listening" /\ root' = root /\ fs' = fs)]_vars
    /\ [][h.pc = "Done" => h' = NoRequest]_vars
    /\ [](failed => server = "listening")

\* C10's case: after a request that ended in 400 or 500, a file was served.
C10_Witness ==
    /\ failed
    /\ h.pc = "Done"
    /\ h.out # <<>>
    /\ h.out[1].status = OK
    /\ h.out[1].terminal = "file"

\* The directory of the request in h has been enumerated and get_dir_list has
\* returned its DirList.
Listed == h.pc = "Rendering" \/ (h.pc = "Done" /\ h.render_io # "none")

\* The file names the directory stream of the request's directory yields.
StreamNames == Node(fs, root, h.file_path.path).entries

\* The rows of the returned DirList.
Rows == h.dir_list.entries

\* The row shows the directory entry fname.
RowOf(row, fname) == row.name = fname \/ row.name = Append(fname, Slash)

\* A file name that is text and does not begin with `.`.
Listable(fname) == decode_utf8_ok[fname] /\ fname[1] # Dot

\* C11: the listing returned by get_dir_list has no row whose name begins with
\* `.`, and has exactly one row for each directory entry whose name is decodable
\* text and does not begin with `.`, and no other row.
C11_HiddenExcluded ==
    Listed =>
        /\ \A i \in 1..Len(Rows) : Rows[i].name[1] # Dot
        /\ \A k \in 1..Len(StreamNames) :
              Listable(StreamNames[k]) =>
                  Cardinality({ i \in 1..Len(Rows) : RowOf(Rows[i], StreamNames[k]) }) = 1
        /\ \A i \in 1..Len(Rows) :
              \E k \in 1..Len(StreamNames) :
                  Listable(StreamNames[k]) /\ RowOf(Rows[i], StreamNames[k])

\* C11's case: a directory with a dot entry beside another entry was listed.
C11_Witness ==
    /\ Listed
    /\ \E k \in 1..Len(StreamNames) : StreamNames[k][1] = Dot
    /\ Len(Rows) = 1

\* The metadata of a directory entry that is to be listed could not be read.
MetadataFailed ==
    /\ h.list_io.stream = "ok"
    /\ \E k \in 1..Len(StreamNames) :
         Listable(StreamNames[k]) /\ StreamNames[k] \in h.list_io.meta_fail

\* C12: when reading one entry's metadata fails, get_dir_list still succeeds, the
\* listing holds all the other readable entries that are not hidden, and the
\* request does not end in a 500.
C12_UnreadableSkipped ==
    (h.pc \in {"Rendering", "Done"} /\ MetadataFailed) =>
        /\ Listed
        /\ \A k \in 1..Len(StreamNames) :
              (Listable(StreamNames[k]) /\ StreamNames[k] \notin h.list_io.meta_fail) =>
                  \E i \in 1..Len(Rows) : RowOf(Rows[i], StreamNames[k])
        /\ (h.pc = "Done" /\ h.render_io = "ok") => h.out[1].status # INTERNAL_SERVER_ERROR

\* The directory entry fname of the listed directory is itself a directory.
EntryIsDir(fname) == is_dir(fs, root, Append(h.file_path.path, fname))

\* C13: in every listing, a row's name is the file name with one `/` appended, and
\* its kind `folder`, when the entry is a directory; it is the bare file name, which
\* does not end in `/`, when it is not.
C13_DisplayName ==
    Listed =>
        \A k \in 1..Len(StreamNames) : \A i \in 1..Len(Rows) :
            RowOf(Rows[i], StreamNames[k]) =>
                IF EntryIsDir(StreamNames[k])
                THEN /\ Rows[i].name = Append(StreamNames[k], Slash)
                     /\ Rows[i].etype = "folder"
                ELSE /\ Rows[i].name = StreamNames[k]
                     /\ ~ends_with(Rows[i].name, Slash)

\* C13's case: a listing with a directory row and a row that is not a directory.
C13_Witness ==
    /\ Listed
    /\ \E i, j \in 1..Len(Rows) :
          /\ ends_with(Rows[i].name, Slash)
          /\ Rows[i].etype = "folder"
          /\ ~ends_with(Rows[j].name, Slash)

\* C14 as stated: every row's kind is `folder` when the entry is a directory and
\* `file` otherwise, and its icon is a function of the kind alone.
C14_AsStated ==
    Listed =>
        /\ \A k \in 1..Len(StreamNames) : \A i \in 1..Len(Rows) :
              RowOf(Rows[i], StreamNames[k]) =>
                  Rows[i].etype = IF EntryIsDir(StreamNames[k]) THEN "folder" ELSE "file"
        /\ \A i, j \in 1..Len(Rows) : Rows[i].etype = Rows[j].etype => Rows[i].icon = Rows[j].icon

\* C14 as amended: every row's kind is `folder` when the entry is a directory and
\* `text` otherwise, and its icon is the kind followed by `.gif`, so two rows of
\* the same kind have the same icon.
C14_KindAndIcon ==
    Listed =>
        /\ \A k \in 1..Len(StreamNames) : \A i \in 1..Len(Rows) :
              RowOf(Rows[i], StreamNames[k]) =>
                  Rows[i].etype = IF EntryIsDir(StreamNames[k]) THEN "folder" ELSE "text"
        /\ \A i \in 1..Len(Rows) :
              \/ Rows[i].etype = "folder" /\ Rows[i].icon = "folder.gif"
              \/ Rows[i].etype = "text" /\ Rows[i].icon = "text.gif"
        /\ \A i, j \in 1..Len(Rows) : Rows[i].etype = Rows[j].etype => Rows[i].icon = Rows[j].icon

\* C14's case: a listing with a row of each kind, each with the icon of its kind.
C14_Witness ==
    /\ Listed
    /\ \E i, j \in 1..Len(Rows) :
          /\ Rows[i].etype = "folder" /\ Rows[i].icon = "folder.gif"
          /\ Rows[j].etype = "text" /\ Rows[j].icon = "text.gif"

\* The text of num / den to one decimal place: t tenths, t / 10 being a nearest
\* multiple of 1/10 to num / den.
OneDecimalOf(label, num, den, unit) ==
    \E t \in ((10 * num) \div den)..((10 * num) \div den + 1) :
        /\ 2 * (10 * num - den * t) <= den
        /\ 2 * (den * t - 10 * num) <= den
        /\ label = ToString(t \div 10) \o "." \o ToString(t % 10) \o unit

\* C15: the size label is `-` for a folder; for a file of n bytes it is `<n>B`
\* below 1024, n/1024 to one decimal place and `KB` from 1024 up to 1024*1024, and
\* n/(1024*1024) to one decimal place and `MB` from there on; 512 gives `512B`,
\* 2048 gives `2.0KB`, 2*1024*1024 gives `2.0MB`.
C15_SizeFormat ==
    (fn_call.fn = "size" /\ fn_ret.done) =>
        LET n == fn_call.size_bytes
            label == fn_ret.val
        IN  IF fn_call.etype = "folder" THEN label = "-"
            ELSE /\ n < 1024 => label = ToString(n) \o "B"
                 /\ (1024 <= n /\ n < 1024 * 1024) => OneDecimalOf(label, n, 1024, "KB")
                 /\ n >= 1024 * 1024 => OneDecimalOf(label, n, 1024 * 1024, "MB")
                 /\ n = 512 => label = "512B"
                 /\ n = 2048 => label = "2.0KB"
                 /\ n = 2 * 1024 * 1024 => label = "2.0MB"

\* C15's case: a file of exactly 1024 * 1024 bytes was labelled in MB.
C15_Witness ==
    /\ fn_call.fn = "size"
    /\ fn_ret.done
    /\ fn_call.etype = "text"
    /\ fn_call.size_bytes = 1024 * 1024
    /\ fn_ret.val = "1.0MB"

\* s is a decimal integer as str::parse reads one: digits, after an optional `+`.
IsDecimal(s) ==
    \E k \in 0..1 :
        /\ Len(s) > k
        /\ k = 1 => s[1] = Byte("+")
        /\ \A i \in (k + 1)..Len(s) : s[i] \in 48..57

\* The number a decimal integer denotes: the sum of its digits' place values.
RECURSIVE PlaceValues(_, _)
PlaceValues(s, i) ==
    IF i > Len(s) THEN 0
    ELSE (IF s[i] = Byte("+") THEN 0 ELSE (s[i] - 48) * 10 ^ (Len(s) - i)) + PlaceValues(s, i + 1)

\* C20: validate_port accepts a string exactly when it is a decimal integer in
\* 1..=65535 and then returns that same number, which fits 16 bits; it returns an
\* error for 0, for a value above 65535 and for text that is not a number.
C20_PortValidation ==
    (fn_call.fn = "validate_port" /\ fn_ret.done) =>
        IF IsDecimal(fn_call.s) /\ PlaceValues(fn_call.s, 1) >= 1
                                /\ PlaceValues(fn_call.s, 1) <= 65535
        THEN fn_ret.ok /\ fn_ret.val = PlaceValues(fn_call.s, 1)
        ELSE ~fn_ret.ok

\* C20's case: the largest port, 65535, was accepted as it is.
C20_Witness ==
    /\ fn_call.fn = "validate_port"
    /\ fn_ret.done
    /\ fn_call.s = B(<<"6", "5", "5", "3", "5">>)
    /\ fn_ret = Ret(TRUE, 65535)

\* The components joined into a root-relative link that starts and ends with `/`.
RECURSIVE LinkOf(_)
LinkOf(comps) ==
    IF comps = <<>> THEN <<Slash>> ELSE LinkOf(SubSeq(comps, 1, Len(comps) - 1))
                                        \o comps[Len(comps)] \o <<Slash>>

\* The link one level up from the directory p below root_: `/` for the root itself.
ParentLinkOf(root_, p) ==
    IF Rel(root_, p) = <<>> THEN <<Slash>>
    ELSE LinkOf(SubSeq(Rel(root_, p), 1, Len(Rel(root_, p)) - 1))

BadEscape(raw) ==
    \E i \in 1..Len(raw) :
        /\ raw[i] = Percent
        /\ ~(i + 2 <= Len(raw) /\ HexVal(raw[i + 1]) >= 0 /\ HexVal(raw[i + 2]) >= 0)

\* The raw path's escapes decode to bytes that are not valid UTF-8.
BadUtf8(raw) == ~decode_utf8_ok[Decoded(raw)]

\* C18: a request path with a `%` not followed by two hexadecimal digits, or with
\* escapes that decode to bytes that are not valid UTF-8, is rejected by the Path
\* Resolver and answered 400 by the dispatcher.
C18_MalformedRejected ==
    (h.pc \notin {"Start", "Resolving"} /\ (BadEscape(h.req.uri) \/ BadUtf8(h.req.uri)))
        => (h.pc = "Done" /\ h.out = <<BadRequest>>)

\* file_service run alone, from the request to the response, on a tree and a root
\* and with the given outcomes of its I/O: the responses it returns.
AloneAfter(hh, lio, rio, sio) ==
    LET inspected == IF hh.pc = "Inspecting" THEN InspectStep(hh, fs, root) ELSE hh
        checked == IF inspected.pc = "DirectoryBranch" THEN SuffixStep(inspected)
                   ELSE inspected
        listed == IF checked.pc = "Listing" THEN ListStep(checked, fs, root, lio)
                  ELSE checked
        rendered == IF listed.pc = "Rendering" THEN RenderStep(listed, rio) ELSE listed
        served == IF rendered.pc = "FileBranch" THEN ServeStep(rendered, fs, root, sio)
                  ELSE rendered
    IN  served.out

Alone(req, lio, rio, sio) ==
    AloneAfter(ResolveStep([NoRequest EXCEPT !.pc = "Resolving", !.req = req], root),
               lio, rio, sio)

\* C19: whatever the interleaving of the tasks' steps, a task that is done holds
\* the response its request gets when handled alone; a step of one task changes no
\* other task's request; and the root, the one thing the tasks share, never changes.
C19_SharedNothing ==
    /\ [](\A i \in Tasks :
            hs[i].pc = "Done" =>
                hs[i].out = Alone(hs[i].req, hs[i].list_io, hs[i].render_io, hs[i].serve_io))
    /\ [][\A i, j \in Tasks : (i # j /\ hs'[i] # hs[i]) => hs'[j] = hs[j]]_vars
    /\ [][root' = root]_vars

\* C19's case: two tasks are in the middle of different requests, one about to
\* inspect its path while the other is listing a directory.
C19_Witness ==
    \E i, j \in Tasks :
        /\ hs[i].pc = "Inspecting"
        /\ hs[j].pc = "Listing"
        /\ hs[i].req # hs[j].req

\* The call is a decryption of what encryption returned, with a 32-byte key.
RoundTrip == fn_call.fn = "decrypt" /\ fn_call.nonce # <<>> /\ Len(fn_call.key) = 32

\* C21: decrypting, with the same 32-byte key, what process_text_encrypt returned
\* gives back the original message; the last 12 bytes of the encrypted output, which
\* decryption splits off as the nonce, are the nonce encryption drew and appended,
\* after the ciphertext and its tag.
C21_RoundTrip ==
    RoundTrip =>
        /\ Len(fn_call.message) = Len(fn_call.sent) + 16 + 12
        /\ SubSeq(fn_call.message, Len(fn_call.message) - 11, Len(fn_call.message))
             = fn_call.nonce
        /\ fn_ret.done => fn_ret = Ret(TRUE, fn_call.sent)

\* C21's case: a message of two bytes went through encryption with a nonce that is
\* not all zero, and came back.
C21_Witness ==
    /\ RoundTrip
    /\ fn_ret.done
    /\ Len(fn_call.sent) = 2
    /\ fn_call.nonce[1] # 0
    /\ fn_ret.val = fn_call.sent

\* raw without the slashes it starts with.
RECURSIVE AfterSlashes(_)
AfterSlashes(raw) ==
    IF raw # <<>> /\ raw[1] = Slash THEN AfterSlashes(Tail(raw)) ELSE raw

\* The raw path begins with two or more slashes.
DoubleSlash(raw) == Len(raw) >= 2 /\ raw[1] = Slash /\ raw[2] = Slash

\* C22 as stated: exactly one leading `/` is stripped, so a request path that
\* begins with two or more slashes still begins with `/`, is seen as holding an
\* absolute-root component, and is rejected.
C22_AsStated ==
    (rv_pc = "ret" /\ DoubleSlash(rv_path)) => rv_result = None

\* C22 as amended: every leading `/` is stripped, so a request path that begins
\* with two or more slashes resolves as the same path without them does, and
\* `//a` resolves to the entry a under the root.
C22_StripsAll ==
    /\ (rv_pc = "ret" /\ DoubleSlash(rv_path)) =>
           /\ rv_result = build_and_validate_path(rv_root, AfterSlashes(rv_path))
           /\ rv_result.some => Confined(rv_root, rv_result.path)
    /\ (rv_pc = "ret" /\ rv_path = B(<<"/", "/", "a">>)) =>
           rv_result = Some(Append(rv_root, B(<<"a">>)))

\* C22's case: a path that begins with two slashes was accepted.
C22_Witness ==
    /\ rv_pc = "ret"
    /\ DoubleSlash(rv_path)
    /\ rv_result.some
    /\ Len(rv_result.path) = Len(rv_root) + 1

\* The segments joined with `/` between them.
RECURSIVE JoinSlash(_)
JoinSlash(segs) ==
    IF segs = <<>> THEN <<>>
    ELSE IF Len(segs) = 1 THEN segs[1]
    ELSE segs[1] \o <<Slash>> \o JoinSlash(Tail(segs))

\* The segment is not a `.` component.
NotDot(seg) == seg # <<Dot>>

\* The raw path with every `.` component taken out.
RemoveDots(raw) == JoinSlash(SelectSeq(SplitSlash[raw, <<>>], NotDot))

\* The raw path consists of `.` components and separators only.
OnlyDots(raw) ==
    /\ \E i \in 1..Len(raw) : raw[i] = Dot
    /\ \A i \in 1..Len(SplitSlash[raw, <<>>]) : SplitSlash[raw, <<>>][i] \in {<<>>, <<Dot>>}

\* C23 as stated: for every accepted request path, taking out its `.` components,
\* wherever they stand, does not change the resolved local path; a path of `.`
\* components only resolves to the root itself.
C23_AsStated ==
    (rv_pc = "ret" /\ rv_result.some) =>
        /\ rv_result = build_and_validate_path(rv_root, RemoveDots(rv_path))
        /\ OnlyDots(rv_path) => rv_result = Some(rv_root)

\* C23 as amended: a request path and the path with its `.` components taken out
\* resolve to the same local path whenever both are accepted, and a rejected path
\* stays rejected; taking a `.` out turns an accepted path into a rejected one only
\* when what is left starts, once decoded, with a separator (an encoded `/` that
\* the `.` had kept from the front); a path of `.` components only resolves to the
\* root itself.
C23_DotIgnored ==
    rv_pc = "ret" =>
        LET without == build_and_validate_path(rv_root, RemoveDots(rv_path)) IN
        /\ (rv_result.some /\ without.some) => rv_result = without
        /\ ~rv_result.some => ~without.some
        /\ (rv_result.some /\ ~without.some) =>
              (Decoded(RemoveDots(rv_path)) # <<>> /\ Decoded(RemoveDots(rv_path))[1] = Slash)
        /\ OnlyDots(rv_path) => rv_result = Some(rv_root)

\* C23's case: a `.` component between two names was dropped.
C23_Witness ==
    /\ rv_pc = "ret"
    /\ rv_path = B(<<"a", "/", ".", "/", "a">>)
    /\ rv_result = Some(rv_root \o <<B(<<"a">>), B(<<"a">>)>>)

\* The request a client sends when it follows the redirect to target.
Followed(target) == Request(target, h.req.ext # <<>>)

\* C24: the target of the redirect issued for a directory asked for without the
\* `/` ends in `/` and resolves to the same local path as the original request, so
\* the request that follows the redirect is answered with the listing or a 500,
\* whatever its I/O does, and never with a second redirect.
C24_OneHop ==
    (h.pc = "Done" /\ h.out # <<>> /\ h.out[1].terminal = "redirect") =>
        LET target == h.out[1].location IN
        /\ ends_with(target, Slash)
        /\ build_and_validate_path(root, target) = h.file_path
        /\ check_path_suffix(Followed(target)) = <<>>
        /\ \A lio \in ListIo(fs, root, h.file_path.path) :
           \A rio \in RenderOutcomes : \A sio \in ServeOutcomes :
               /\ Len(Alone(Followed(target), lio, rio, sio)) = 1
               /\ Alone(Followed(target), lio, rio, sio)[1].terminal
                      \in {"listing", "server_error"}

\* C24's case: `/a`, a directory, was redirected to `/a/`.
C24_Witness ==
    /\ h.pc = "Done"
    /\ h.req.uri = B(<<"/", "a">>)
    /\ h.out # <<>>
    /\ h.out[1].terminal = "redirect"
    /\ h.out[1].location = B(<<"/", "a", "/">>)

\* The request a client sends when it follows the link of a row of the listing it
\* got for the request in h: the link is relative to the directory's URI.
FollowedLink(row) == Request(h.req.uri \o row.path, h.req.ext # <<>>)

\* The outcomes the directory read of the request req can have.
ListIoOf(req) ==
    IF build_and_validate_path(root, req.uri).some
    THEN ListIo(fs, root, build_and_validate_path(root, req.uri).path)
    ELSE {NoListIo}

\* C25: in every listing returned by get_dir_list each row's path, the link
\* target, is its name; so the link of a folder row ends in `/`, and the request
\* that follows a folder link is never answered with the trailing-slash redirect.
C25_LinkIsName ==
    Listed =>
        \A i \in 1..Len(Rows) :
            /\ Rows[i].path = Rows[i].name
            /\ Rows[i].etype = "folder" =>
                 /\ ends_with(Rows[i].path, Slash)
                 /\ check_path_suffix(FollowedLink(Rows[i])) = <<>>
                 /\ \A lio \in ListIoOf(FollowedLink(Rows[i])) :
                    \A rio \in RenderOutcomes : \A sio \in ServeOutcomes :
                    \A k \in 1..Len(Alone(FollowedLink(Rows[i]), lio, rio, sio)) :
                        Alone(FollowedLink(Rows[i]), lio, rio, sio)[k].terminal # "redirect"

\* C25's case: the listing of a directory below the root has a folder row.
C25_Witness ==
    /\ Listed
    /\ Len(h.file_path.path) > Len(root)
    /\ \E i \in 1..Len(Rows) : Rows[i].etype = "folder" /\ Rows[i].path = B(<<"a", "/">>)

\* The password holds a byte of the class.
HasOneOf(password, class) ==
    \E i \in 1..Len(password) : \E j \in 1..Len(class) : password[i] = class[j]

\* C26: for every 8-bit length and every combination of the four flags,
\* process_genpass produces a password of exactly `length` characters with at
\* least one character of each enabled class; it does not panic, because the
\* subtraction of the number of enabled classes from the length never underflows
\* and the character set drawn from is never empty.
C26_PasswordLength ==
    (fn_call.fn = "genpass" /\ fn_ret.done) =>
        /\ fn_ret # Panic
        /\ Len(fn_ret.val) = fn_call.length
        /\ fn_call.lower => HasOneOf(fn_ret.val, LOWER)
        /\ fn_call.upper => HasOneOf(fn_ret.val, UPPER)
        /\ fn_call.digits => HasOneOf(fn_ret.val, DIGITS)
        /\ fn_call.symbol => HasOneOf(fn_ret.val, SYMBOL)

\* C27: process_text_decrypt reports every bad input as an error value and
\* never aborts; in particular an input shorter than the 12-byte nonce, the
\* empty input included, gives an error, the split position
\* `message.len() - 12` never being computed below zero.
C27_ShortInputIsError ==
    (fn_call.fn = "decrypt" /\ fn_ret.done) =>
        /\ fn_ret # Panic
        /\ Len(fn_call.message) < 12 => ~fn_ret.ok

====
